---------------------------- MODULE Spec2Model ----------------------------
(***************************************************************************)
(* Model of the PACS facility reconciliation scripts:                      *)
(*   match_addresses.py         - address + facility name matching         *)
(*   process_contact_import.py  - contact enrichment and deduplication     *)
(*                                                                         *)
(* Text values are sequences of tokens (words, "," and digit groups);      *)
(* whitespace separates neighbouring tokens.  The empty text is << >>.     *)
(* Scores are fixed-point numbers in units of 1/Scale.                     *)
(* rapidfuzz's fuzz.token_set_ratio is a library function: it is modelled  *)
(* as an unknown but fixed function (variable ratio), its values drawn     *)
(* from RatioVals the first time a pair of texts is compared.              *)
(***************************************************************************)
EXTENDS Integers, Sequences, FiniteSets, TLC

VARIABLES
    pc,                     \* position of the running script
    exit_code,              \* "running", 0 or 1
    stderr,                 \* the error printed before the run ended, or ""
    written,                \* destinations written by this run, in order
    BQ_CLIENT,              \* global BigQuery client handle
    ratio,                  \* fuzz.token_set_ratio, as far as it has been asked
    unique_addresses,       \* match_addresses.main locals
    facility_names,
    hs_df,
    corp_df,
    cu_df,
    hubspot_by_state,
    clickup_by_state,
    corporations_candidates,
    i,
    target_state,
    hs_match,
    hs_score,
    cu_match,
    cu_score,
    corp_match,
    corp_score,
    phases,                 \* history: what each phase of the current target returned
    results,
    stats,
    sc_target_addr,         \* arguments and results of the scoring functions
    sc_target_facility,
    sc_candidates,
    sc_scores,
    sc_best,
    warnings,               \* process_contact_import: warnings printed
    contact_df,             \* process_contact_import.main locals
    facilities_df,
    address_lookup,
    hs_contacts,
    email_lookup,
    name_lookup,
    idx,
    matched_count,
    existing_contacts,
    tx_input,               \* argument and results of the text functions
    tx_once,
    tx_twice,
    tx_state

scoreVars == <<sc_target_addr, sc_target_facility, sc_candidates, sc_scores, sc_best>>

contactVars == <<warnings, contact_df, facilities_df, address_lookup, hs_contacts,
                 email_lookup, name_lookup, idx, matched_count, existing_contacts>>

matchVars == <<unique_addresses, facility_names, hs_df, corp_df, cu_df,
               hubspot_by_state, clickup_by_state, corporations_candidates, i,
               target_state, hs_match, hs_score, cu_match, cu_score, corp_match,
               corp_score, phases, results, stats>>

textVars == <<tx_input, tx_once, tx_twice, tx_state>>

vars == <<pc, exit_code, stderr, written, BQ_CLIENT, ratio, matchVars, scoreVars,
          contactVars, textVars>>

---------------------------------------------------------------------------
(* Bounds of the model *)

MaxTargets == 2
MaxHsRows == 2
MaxCuRows == 1
MaxCorpRows == 1
MaxCands == 3
MaxContacts == 3
MaxFacilities == 2
MaxHsContacts == 2
MaxTextLen == 4

(* Fixed-point scale of a score: 1.0 is Scale *)
Scale == 10000

(* match_threshold = 0.5 *)
match_threshold == 5000

---------------------------------------------------------------------------
(* Python values *)

None == [py_none |-> TRUE]
NoneStr == "None"
NaN == <<"nan">>
EmptyText == << >>

pd_notna(x) == x # NaN

truthy(text) == text # EmptyText

SeqsUpTo(S, n) == UNION {[1..k -> S] : k \in 0..n}

RECURSIVE Flatten(_)
Flatten(ss) ==
    IF ss = << >> THEN << >> ELSE Head(ss) \o Flatten(Tail(ss))

(* ', '.join(parts) *)
RECURSIVE JoinComma(_)
JoinComma(parts) ==
    IF parts = << >> THEN << >>
    ELSE IF Len(parts) = 1 THEN Head(parts)
    ELSE Head(parts) \o <<",">> \o JoinComma(Tail(parts))

Min(S) == CHOOSE x \in S : \A y \in S : x <= y

---------------------------------------------------------------------------
(* extract_state_from_address *)

us_states ==
    {"AL", "AK", "AZ", "AR", "CA", "CO", "CT", "DE", "FL", "GA",
     "HI", "ID", "IL", "IN", "IA", "KS", "KY", "LA", "ME", "MD",
     "MA", "MI", "MN", "MS", "MO", "MT", "NE", "NV", "NH", "NJ",
     "NM", "NY", "NC", "ND", "OH", "OK", "OR", "PA", "RI", "SC",
     "SD", "TN", "TX", "UT", "VT", "VA", "WA", "WV", "WI", "WY",
     "DC", "PR", "VI", "GU", "AS", "MP"}

(* Tokens of the model's alphabet that are exactly two letters: [A-Za-z]{2} *)
LowerAlpha2 == {"il", "tx", "zz", "po"}
IsAlpha2(tok) == tok \in us_states \/ tok \in LowerAlpha2 \/ tok \in {"ZZ", "St"}

(* Tokens that start with five digits: \d{5} *)
IsZip(tok) == tok \in {"78701", "62701", "12345"}

(* str.upper() on a two-letter token *)
upper(tok) ==
    CASE tok = "il" -> "IL"
      [] tok = "tx" -> "TX"
      [] tok = "zz" -> "ZZ"
      [] tok = "po" -> "PO"
      [] tok = "St" -> "ST"
      [] OTHER -> tok

(* Positions k where a pattern matches with its group at token k.          *)
(*   1: ,\s*([A-Za-z]{2})\s+\d{5}    2: ,\s*([A-Za-z]{2})\s*,              *)
(*   3: \b([A-Za-z]{2})\s+\d{5}                                            *)
PatternMatches(p, addr) ==
    {k \in 1..Len(addr) :
        /\ CASE p = 1 -> /\ k > 1 /\ addr[k-1] = ","
                         /\ k < Len(addr) /\ IsZip(addr[k+1])
             [] p = 2 -> /\ k > 1 /\ addr[k-1] = ","
                         /\ k < Len(addr) /\ addr[k+1] = ","
             [] OTHER -> /\ k < Len(addr) /\ IsZip(addr[k+1])
        /\ IsAlpha2(addr[k])}

(* re.search: the leftmost match only; a pattern whose leftmost match is no *)
(* state code is given up and the next pattern is tried.                    *)
RECURSIVE extract_state_from(_, _)
extract_state_from(p, addr) ==
    IF p > 3 THEN NoneStr
    ELSE LET ms == PatternMatches(p, addr)
             state == upper(addr[Min(ms)])
         IN IF ms # {} /\ state \in us_states
            THEN state
            ELSE extract_state_from(p + 1, addr)

(* What a call ends with when re.search is handed a value that is no str *)
TypeError == "TypeError"

(* A NaN is a float that is neither falsy nor a str: "not addr" lets it *)
(* through and re.search raises                                         *)
extract_state_from_address(addr) ==
    IF ~truthy(addr) THEN NoneStr
    ELSE IF ~pd_notna(addr) THEN TypeError
    ELSE extract_state_from(1, addr)

---------------------------------------------------------------------------
(* build_hubspot_address *)

present(row, f) == pd_notna(row[f]) /\ truthy(row[f])

PresentParts(row, fs) ==
    SelectSeq([k \in 1..Len(fs) |-> IF present(row, fs[k]) THEN row[fs[k]] ELSE NaN],
              LAMBDA v : v # NaN)

build_hubspot_address(row) ==
    LET street == PresentParts(row, <<"properties_address", "properties_address2">>)
        city_state_zip == PresentParts(row, <<"properties_city", "properties_state",
                                              "properties_zip">>)
        country == PresentParts(row, <<"properties_country">>)
        parts == street
                 \o (IF city_state_zip # << >> THEN <<JoinComma(city_state_zip)>> ELSE << >>)
                 \o country
    IN JoinComma(parts)

---------------------------------------------------------------------------
(* extract_clickup_location *)

(* value.get('formatted_address') / value.get('address') of a dict *)
DictAddress(d) ==
    IF truthy(d.formatted_address) THEN d.formatted_address
    ELSE IF truthy(d.address) THEN d.address
    ELSE EmptyText

(* str.lower() on a custom field's name *)
lower(name) ==
    CASE name = "Location" -> "location"
      [] name = "USA" -> "usa"
      [] name = "Mary" -> "mary"
      [] name = "MARY" -> "mary"
      [] name = "Ann" -> "ann"
      [] name = "Watson" -> "watson"
      [] name = "M@X.COM" -> "m@x.com"
      [] name = "Oak" -> "oak"
      [] name = "Pine" -> "pine"
      [] OTHER -> name

(* What one element of custom_fields returns, or << >> to keep looking *)
FieldLocation(field) ==
    IF field.kind = "dict" /\ lower(field.name) = "location"
    THEN IF field.value.kind = "dict" THEN DictAddress(field.value)
         ELSE IF field.value.kind = "str" THEN field.value.str
         ELSE EmptyText
    ELSE EmptyText

RECURSIVE FirstFieldLocation(_)
FirstFieldLocation(items) ==
    IF items = << >> THEN EmptyText
    ELSE IF truthy(FieldLocation(Head(items))) THEN FieldLocation(Head(items))
    ELSE FirstFieldLocation(Tail(items))

LocationsEntry(loc) == IF loc.kind = "dict" THEN DictAddress(loc) ELSE EmptyText

RECURSIVE FirstLocationsEntry(_)
FirstLocationsEntry(items) ==
    IF items = << >> THEN EmptyText
    ELSE IF truthy(LocationsEntry(Head(items))) THEN LocationsEntry(Head(items))
    ELSE FirstLocationsEntry(Tail(items))

extract_clickup_location(row) ==
    LET from_cf ==
            IF row.custom_fields.kind = "list"
            THEN FirstFieldLocation(row.custom_fields.items)
            ELSE EmptyText
        from_loc ==
            IF row.locations.kind = "list"
            THEN FirstLocationsEntry(row.locations.items)
            ELSE IF row.locations.kind = "dict" THEN DictAddress(row.locations)
            ELSE EmptyText
    IN IF truthy(from_cf) THEN from_cf ELSE from_loc

---------------------------------------------------------------------------
(* Similarity scoring *)

(* Values fuzz.token_set_ratio(...) / 100.0 may take, in units of 1/Scale *)
RatioVals == {0, 4000, 5660}

(* fuzz.token_set_ratio(s1, s2) / 100.0: 0 for an empty text, 1.0 for two  *)
(* equal texts, and otherwise what the library answers for the pair        *)
token_set_ratio(s1, s2) ==
    IF s1 = EmptyText \/ s2 = EmptyText THEN 0
    ELSE IF s1 = s2 THEN Scale
    ELSE ratio[<<s1, s2>>]

(* if facility_score > 0: weighted, else the address score alone *)
Weighted(addr_score, facility_score) ==
    IF facility_score > 0
    THEN ((addr_score * 6) + (facility_score * 4)) \div 10
    ELSE addr_score

(* The weighting applied without looking at the addresses first *)
WeightedRegardlessOfAddress(target_addr, target_facility, candidate_addr, candidate_name) ==
    Weighted(token_set_ratio(target_addr, candidate_addr),
             IF truthy(target_facility) /\ truthy(candidate_name)
             THEN token_set_ratio(target_facility, candidate_name)
             ELSE 0)

combined_similarity_score(target_addr, target_facility, candidate_addr, candidate_name) ==
    IF ~truthy(target_addr) \/ ~truthy(candidate_addr) THEN 0
    ELSE LET addr_score == token_set_ratio(target_addr, candidate_addr)
             facility_score ==
                 IF truthy(target_facility) /\ truthy(candidate_name)
                 THEN token_set_ratio(target_facility, candidate_name)
                 ELSE 0
         IN Weighted(addr_score, facility_score)

(* A scan that lets a later candidate take over on an equal score *)
BetterOrEqual(score, best_score) == score >= best_score

(* if score > best_score *)
Better(score, best_score) == score > best_score

(* The scan of find_best_match_combined from (best_match, best_score) on *)
RECURSIVE ScanCombined(_, _, _, _, _)
ScanCombined(target_addr, target_facility, candidates, best_match, best_score) ==
    IF candidates = << >> THEN <<best_match, best_score>>
    ELSE LET c == Head(candidates)
             score == combined_similarity_score(target_addr, target_facility, c[1], c[2])
         IN IF Better(score, best_score)
            THEN ScanCombined(target_addr, target_facility, Tail(candidates), c[3], score)
            ELSE ScanCombined(target_addr, target_facility, Tail(candidates),
                              best_match, best_score)

find_best_match_combined(target_addr, target_facility, candidates) ==
    ScanCombined(target_addr, target_facility, candidates, None, 0)

(* The name-only scan over corporations_candidates *)
RECURSIVE ScanCorporations(_, _, _, _)
ScanCorporations(facility_name, candidates, best_match, best_score) ==
    IF candidates = << >> THEN <<best_match, best_score>>
    ELSE LET c == Head(candidates)
             score == token_set_ratio(facility_name, c[2])
         IN IF Better(score, best_score)
            THEN ScanCorporations(facility_name, Tail(candidates), c[3], score)
            ELSE ScanCorporations(facility_name, Tail(candidates), best_match, best_score)

(* round(score, 3), still in units of 1/Scale *)
round3(score) == ((score + 5) \div 10) * 10

---------------------------------------------------------------------------
(* The state index: a defaultdict(list), keys in insertion order *)

EmptyIndex == [keys |-> << >>, val |-> << >>]

HasKey(index, k) == k \in DOMAIN index.val

IndexAppend(index, k, v) ==
    IF HasKey(index, k)
    THEN [index EXCEPT !.val[k] = Append(@, v)]
    ELSE [keys |-> Append(index.keys, k),
          val |-> [x \in DOMAIN index.val \cup {k} |->
                      IF x = k THEN <<v>> ELSE index.val[x]]]

(* by_state[k] of a defaultdict(list): a missing key is inserted, empty *)
defaultdict_getitem(index, k) ==
    IF HasKey(index, k) THEN index
    ELSE [keys |-> Append(index.keys, k),
          val |-> [x \in DOMAIN index.val \cup {k} |->
                      IF x = k THEN << >> ELSE index.val[x]]]

(* if state: by_state[state] else: by_state['__NO_STATE__'] *)
BucketOf(state) == IF state # NoneStr THEN state ELSE "__NO_STATE__"

(* Variant: the fallback looks at the no-state bucket alone *)
NoStateBucketOnly(index) ==
    IF HasKey(index, "__NO_STATE__") THEN index.val["__NO_STATE__"] ELSE << >>

(* for state, candidates in by_state.items(): all.extend(candidates) *)
AllCandidates(index) ==
    Flatten([k \in 1..Len(index.keys) |-> index.val[index.keys[k]]])

HubSpotCandidate(row) ==
    LET full_addr == build_hubspot_address(row)
        company_name == IF pd_notna(row.properties_name) THEN row.properties_name
                        ELSE EmptyText
        parent_company == IF pd_notna(row.properties_parentconame)
                          THEN row.properties_parentconame ELSE EmptyText
    IN <<full_addr, company_name,
         [hubspot_record_id |-> IF row.id # "" THEN row.id
                                ELSE row.properties_hs_object_id,
          hubspot_company_name |-> company_name,
          hubspot_full_address |-> full_addr,
          hubspot_parent_company |-> parent_company]>>

RECURSIVE IndexHubSpotRows(_, _)
IndexHubSpotRows(rows, index) ==
    IF rows = << >> THEN index
    ELSE LET c == HubSpotCandidate(Head(rows)) IN
         IF truthy(c[1])
         THEN IndexHubSpotRows(Tail(rows),
                  IndexAppend(index, BucketOf(extract_state_from_address(c[1])), c))
         ELSE IndexHubSpotRows(Tail(rows), index)

ClickUpCandidate(row) ==
    LET location == extract_clickup_location(row)
        task_name == IF pd_notna(row.name) THEN row.name ELSE EmptyText
    IN <<location, task_name,
         [clickup_task_id |-> row.id,
          clickup_task_name |-> task_name,
          clickup_task_location |-> location,
          clickup_url |-> row.url]>>

RECURSIVE IndexClickUpRows(_, _)
IndexClickUpRows(rows, index) ==
    IF rows = << >> THEN index
    ELSE LET c == ClickUpCandidate(Head(rows)) IN
         IF truthy(c[1])
         THEN IndexClickUpRows(Tail(rows),
                  IndexAppend(index, BucketOf(extract_state_from_address(c[1])), c))
         ELSE IndexClickUpRows(Tail(rows), index)

CorporationsCandidate(row) ==
    LET task_name == IF pd_notna(row.name) THEN row.name ELSE EmptyText
    IN <<task_name, task_name,
         [corporations_task_id |-> row.id,
          corporations_task_name |-> task_name,
          corporations_task_location |-> EmptyText,
          corporations_task_url |-> row.url]>>

CorporationsCandidates(rows) ==
    SelectSeq([k \in 1..Len(rows) |-> CorporationsCandidate(rows[k])],
              LAMBDA c : truthy(c[1]))

---------------------------------------------------------------------------
(* Inputs of a run: what the workbook and the BigQuery tables may hold *)

AddrTX == <<"100", "oak", ",", "austin", ",", "TX", "78701">>
AddrHubSpotTX == <<"100", "oak", ",", "austin", ",", "TX", ",", "78701">>
AddrNoState == <<"po", "box", "9">>

TargetAddrPool == {AddrTX, AddrNoState}
FacilityPool == {EmptyText, <<"oak">>}

HsRow(id, name, address, city, state, zip) ==
    [id |-> id, properties_hs_object_id |-> id,
     properties_name |-> name, properties_parentconame |-> <<"pacs">>,
     properties_address |-> address, properties_address2 |-> NaN,
     properties_city |-> city, properties_state |-> state,
     properties_zip |-> zip, properties_country |-> NaN]

HsRowPool ==
    {HsRow("h1", <<"oak", "facility">>, <<"100", "oak">>, <<"austin">>, <<"TX">>, <<"78701">>),
     HsRow("h2", NaN, <<"100", "oak">>, <<"austin">>, <<"TX">>, <<"78701">>),
     HsRow("h3", <<"oak", "facility">>, <<"po", "box", "9">>, NaN, NaN, NaN),
     HsRow("h4", <<"oak", "facility">>, NaN, NaN, EmptyText, NaN)}

JsonNaN == [kind |-> "nan", items |-> << >>]
JsonMalformed == [kind |-> "malformed", items |-> << >>]
JsonStr(text) ==
    [kind |-> "str", formatted_address |-> EmptyText, address |-> EmptyText, str |-> text]
JsonAddr(formatted, address) ==
    [kind |-> "dict", formatted_address |-> formatted, address |-> address,
     str |-> EmptyText]
JsonField(name, value) == [kind |-> "dict", name |-> name, value |-> value]
JsonList(items) == [kind |-> "list", items |-> items]

CuRow(id, name, custom_fields, locations) ==
    [id |-> id, name |-> name, url |-> <<"https://app.clickup.com/t/", id>>,
     custom_fields |-> custom_fields, locations |-> locations]

CuRowPool ==
    {CuRow("c1", <<"oak", "facility">>,
           JsonList(<<JsonField("Status", JsonStr(<<"open">>)),
                      JsonField("Location", JsonAddr(AddrHubSpotTX, EmptyText))>>),
           JsonNaN),
     CuRow("c2", NaN, JsonMalformed, JsonList(<<JsonAddr(EmptyText, AddrNoState)>>)),
     CuRow("c3", <<"oak", "facility">>, JsonNaN, JsonNaN)}

CorpRow(id, name) == [id |-> id, name |-> name, url |-> <<"https://app.clickup.com/t/", id>>]

CorpRowPool == {CorpRow("k1", <<"oak", "facility">>), CorpRow("k2", NaN)}

---------------------------------------------------------------------------
(* match_addresses.main *)

NoPhase == <<None, 0>>

NewPhases ==
    [hs_filtered_ran |-> FALSE, hs_filtered |-> NoPhase,
     hs_fallback_ran |-> FALSE, hs_fallback |-> NoPhase, hs_final |-> NoPhase,
     cu_filtered_ran |-> FALSE, cu_filtered |-> NoPhase,
     cu_fallback_ran |-> FALSE, cu_fallback |-> NoPhase, cu_final |-> NoPhase,
     corp_best |-> NoPhase, corp_final |-> NoPhase]

InitStats ==
    [hs_state_match |-> 0, hs_fallback |-> 0, cu_state_match |-> 0,
     cu_fallback |-> 0, corp_state_match |-> 0, corp_fallback |-> 0]

ScoreIdle ==
    /\ sc_target_addr = EmptyText
    /\ sc_target_facility = EmptyText
    /\ sc_candidates = << >>
    /\ sc_scores = << >>
    /\ sc_best = <<None, 0>>

ContactsIdle ==
    /\ warnings = {}
    /\ contact_df = << >>
    /\ facilities_df = << >>
    /\ address_lookup = << >>
    /\ hs_contacts = << >>
    /\ email_lookup = << >>
    /\ name_lookup = << >>
    /\ idx = 0
    /\ matched_count = 0
    /\ existing_contacts = 0

TextIdle ==
    /\ tx_input = EmptyText
    /\ tx_once = EmptyText
    /\ tx_twice = EmptyText
    /\ tx_state = NoneStr

MatchIdle ==
    /\ unique_addresses = << >>
    /\ facility_names = << >>
    /\ hs_df = << >>
    /\ corp_df = << >>
    /\ cu_df = << >>
    /\ hubspot_by_state = EmptyIndex
    /\ clickup_by_state = EmptyIndex
    /\ corporations_candidates = << >>
    /\ i = 0
    /\ target_state = NoneStr
    /\ hs_match = None
    /\ hs_score = 0
    /\ cu_match = None
    /\ cu_score = 0
    /\ corp_match = None
    /\ corp_score = 0
    /\ phases = << >>
    /\ results = << >>
    /\ stats = InitStats

Init ==
    /\ pc = "read_excel"
    /\ exit_code = "running"
    /\ stderr = ""
    /\ written = << >>
    /\ BQ_CLIENT = NoneStr
    /\ ratio = << >>
    /\ MatchIdle
    /\ ScoreIdle
    /\ ContactsIdle
    /\ TextIdle

(* print(message, file=sys.stderr); sys.exit(1) *)
Exit1(message) ==
    /\ pc' = "exit"
    /\ exit_code' = 1
    /\ stderr' = message

(* Step 1: read the targets, map the facility names, rewrite the sheet *)
ReadExcel ==
    /\ pc = "read_excel"
    /\ \/ /\ \E addrs \in SeqsUpTo(TargetAddrPool, MaxTargets),
                address_to_facility \in [TargetAddrPool -> FacilityPool] :
               /\ unique_addresses' = addrs
               /\ facility_names' =
                      [k \in 1..Len(addrs) |-> address_to_facility[addrs[k]]]
          /\ written' = Append(written, "Unique Addresses")
          /\ pc' = "query_hubspot"
          /\ UNCHANGED <<exit_code, stderr>>
       \/ /\ Exit1("Error reading Excel")
          /\ UNCHANGED <<unique_addresses, facility_names, written>>
    /\ UNCHANGED <<BQ_CLIENT, ratio, hs_df, corp_df, cu_df, hubspot_by_state,
                   clickup_by_state, corporations_candidates, i, target_state,
                   hs_match, hs_score, cu_match, cu_score, corp_match, corp_score,
                   phases, results, stats>>
    /\ UNCHANGED <<scoreVars, contactVars, textVars>>

(* read_from_bigquery: the client is made on first use; a failed            *)
(* authentication or a failed query ends the run with sys.exit(1).          *)
(* outcome is what the data source does: "ok", "auth_failed", "query_failed" *)
FetchOutcomes == {"ok", "auth_failed", "query_failed"}

read_from_bigquery(outcome, next_pc) ==
    IF BQ_CLIENT = NoneStr /\ outcome = "auth_failed"
    THEN Exit1("BigQuery authentication failed") /\ UNCHANGED BQ_CLIENT
    ELSE /\ BQ_CLIENT' = "client"
         /\ IF outcome = "query_failed"
            THEN Exit1("Failed to read from BigQuery")
            ELSE pc' = next_pc /\ UNCHANGED <<exit_code, stderr>>

(* Step 2: query the HubSpot companies *)
QueryHubSpot ==
    /\ pc = "query_hubspot"
    /\ \E outcome \in FetchOutcomes, rows \in SeqsUpTo(HsRowPool, MaxHsRows) :
          /\ read_from_bigquery(outcome, "index_hubspot")
          /\ hs_df' = IF pc' = "index_hubspot" THEN rows ELSE hs_df
    /\ UNCHANGED <<written, ratio, unique_addresses, facility_names, corp_df, cu_df,
                   hubspot_by_state, clickup_by_state, corporations_candidates, i,
                   target_state, hs_match, hs_score, cu_match, cu_score, corp_match,
                   corp_score, phases, results, stats>>
    /\ UNCHANGED <<scoreVars, contactVars, textVars>>

IndexHubSpot ==
    /\ pc = "index_hubspot"
    /\ hubspot_by_state' = IndexHubSpotRows(hs_df, EmptyIndex)
    /\ pc' = "query_corporations"
    /\ UNCHANGED <<exit_code, stderr, written, BQ_CLIENT, ratio, unique_addresses,
                   facility_names, hs_df, corp_df, cu_df, clickup_by_state,
                   corporations_candidates, i, target_state, hs_match, hs_score,
                   cu_match, cu_score, corp_match, corp_score, phases, results, stats>>
    /\ UNCHANGED <<scoreVars, contactVars, textVars>>

(* Step 3: query the Corporations list *)
QueryCorporations ==
    /\ pc = "query_corporations"
    /\ \E outcome \in FetchOutcomes, rows \in SeqsUpTo(CorpRowPool, MaxCorpRows) :
          /\ read_from_bigquery(outcome, "index_corporations")
          /\ corp_df' = IF pc' = "index_corporations" THEN rows ELSE corp_df
    /\ UNCHANGED <<written, ratio, unique_addresses, facility_names, hs_df, cu_df,
                   hubspot_by_state, clickup_by_state, corporations_candidates, i,
                   target_state, hs_match, hs_score, cu_match, cu_score, corp_match,
                   corp_score, phases, results, stats>>
    /\ UNCHANGED <<scoreVars, contactVars, textVars>>

IndexCorporations ==
    /\ pc = "index_corporations"
    /\ corporations_candidates' = CorporationsCandidates(corp_df)
    /\ pc' = "query_clickup"
    /\ UNCHANGED <<exit_code, stderr, written, BQ_CLIENT, ratio, unique_addresses,
                   facility_names, hs_df, corp_df, cu_df, hubspot_by_state,
                   clickup_by_state, i, target_state, hs_match, hs_score,
                   cu_match, cu_score, corp_match, corp_score, phases, results, stats>>
    /\ UNCHANGED <<scoreVars, contactVars, textVars>>

(* Step 4: query all ClickUp tasks *)
QueryClickUp ==
    /\ pc = "query_clickup"
    /\ \E outcome \in FetchOutcomes, rows \in SeqsUpTo(CuRowPool, MaxCuRows) :
          /\ read_from_bigquery(outcome, "index_clickup")
          /\ cu_df' = IF pc' = "index_clickup" THEN rows ELSE cu_df
    /\ UNCHANGED <<written, ratio, unique_addresses, facility_names, hs_df, corp_df,
                   hubspot_by_state, clickup_by_state, corporations_candidates, i,
                   target_state, hs_match, hs_score, cu_match, cu_score, corp_match,
                   corp_score, phases, results, stats>>
    /\ UNCHANGED <<scoreVars, contactVars, textVars>>

IndexClickUp ==
    /\ pc = "index_clickup"
    /\ clickup_by_state' = IndexClickUpRows(cu_df, EmptyIndex)
    /\ pc' = "next_target"
    /\ UNCHANGED <<exit_code, stderr, written, BQ_CLIENT, ratio, unique_addresses,
                   facility_names, hs_df, corp_df, cu_df, hubspot_by_state,
                   corporations_candidates, i, target_state, hs_match, hs_score,
                   cu_match, cu_score, corp_match, corp_score, phases, results, stats>>
    /\ UNCHANGED <<scoreVars, contactVars, textVars>>

(* Every candidate an index holds, whatever its bucket *)
IndexedCandidates(index) ==
    Flatten([k \in 1..Len(index.keys) |-> index.val[index.keys[k]]])

(* The pairs of texts fuzz.token_set_ratio can be asked about for one target *)
ComparedPairs(unique_addr, facility_name) ==
    LET cands == IndexedCandidates(hubspot_by_state)
                     \o IndexedCandidates(clickup_by_state)
        scored == {k \in 1..Len(cands) : truthy(unique_addr) /\ truthy(cands[k][1])}
        pairs ==
            {<<unique_addr, cands[k][1]>> : k \in scored}
            \cup {<<facility_name, cands[k][2]>> :
                     k \in {j \in scored : truthy(facility_name) /\ truthy(cands[j][2])}}
            \cup {<<facility_name, corporations_candidates[k][2]>> :
                     k \in {j \in 1..Len(corporations_candidates) : truthy(facility_name)}}
    IN {pair \in pairs : pair[1] # pair[2]}

(* Step 5, loop head: the next target, its state, and the library's answers *)
(* for the comparisons this target needs that it has not given before       *)
NextTarget ==
    /\ pc = "next_target"
    /\ IF i < Len(unique_addresses)
       THEN /\ i' = i + 1
            /\ target_state' = extract_state_from_address(unique_addresses[i + 1])
            /\ phases' = Append(phases, NewPhases)
            /\ LET asked == ComparedPairs(unique_addresses[i + 1], facility_names[i + 1])
                   new == asked \ DOMAIN ratio
               IN \E answers \in [new -> RatioVals] :
                     ratio' = [pair \in DOMAIN ratio \cup new |->
                                  IF pair \in new THEN answers[pair] ELSE ratio[pair]]
            /\ pc' = "hs_filtered"
       ELSE /\ pc' = "save"
            /\ UNCHANGED <<i, target_state, phases, ratio>>
    /\ UNCHANGED <<exit_code, stderr, written, BQ_CLIENT, unique_addresses, facility_names,
                   hs_df, corp_df, cu_df, hubspot_by_state, clickup_by_state,
                   corporations_candidates, hs_match, hs_score, cu_match, cu_score,
                   corp_match, corp_score, results, stats>>
    /\ UNCHANGED <<scoreVars, contactVars, textVars>>

(* Variant: the key is looked up without the membership test *)
StateFilteredNoKeyCheck(state, index) == state # NoneStr

(* if target_state and target_state in by_state *)
StateFiltered(state, index) == state # NoneStr /\ HasKey(index, state)

(* Variant: any candidate found is accepted *)
AcceptedAnyScore(match, score) == match # None

(* if match and score >= match_threshold *)
Accepted(match, score) == match # None /\ score >= match_threshold

(* Variant: the fallback runs only when the filtered phase found nothing *)
FallbackOnlyWhenAbsent(match, score) == match = None

(* if not match or score < match_threshold *)
NeedFallback(match, score) == match = None \/ score < match_threshold

(* Variant: the fallback's result is kept only when it scores higher *)
KeptUnlessBetter(previous, found) == IF found[2] > previous[2] THEN found ELSE previous

(* match, score = find_best_match_combined(...): the fallback's result      *)
(* replaces the filtered one, whatever the two scores                       *)
Overwritten(previous, found) == found

Bump(counter, yes) == [stats EXCEPT ![counter] = IF yes THEN @ + 1 ELSE @]

SetPhase(ran, got, found) ==
    [phases EXCEPT ![i] = [@ EXCEPT ![ran] = TRUE, ![got] = found]]

(* HubSpot, state-filtered phase *)
HsFiltered ==
    /\ pc = "hs_filtered"
    /\ IF StateFiltered(target_state, hubspot_by_state)
       THEN LET looked == defaultdict_getitem(hubspot_by_state, target_state)
                found == find_best_match_combined(unique_addresses[i], facility_names[i],
                                                  looked.val[target_state])
            IN /\ hubspot_by_state' = looked
               /\ hs_match' = found[1]
               /\ hs_score' = found[2]
               /\ stats' = Bump("hs_state_match", Accepted(found[1], found[2]))
               /\ phases' = SetPhase("hs_filtered_ran", "hs_filtered", found)
       ELSE /\ hs_match' = None
            /\ hs_score' = 0
            /\ UNCHANGED <<stats, phases, hubspot_by_state>>
    /\ pc' = "hs_fallback"
    /\ UNCHANGED <<exit_code, stderr, written, BQ_CLIENT, ratio, unique_addresses,
                   facility_names, hs_df, corp_df, cu_df,
                   clickup_by_state, corporations_candidates, i, target_state,
                   cu_match, cu_score, corp_match, corp_score, results>>
    /\ UNCHANGED <<scoreVars, contactVars, textVars>>

(* HubSpot, fallback phase *)
HsFallback ==
    /\ pc = "hs_fallback"
    /\ IF NeedFallback(hs_match, hs_score)
       THEN LET found == find_best_match_combined(unique_addresses[i], facility_names[i],
                                                  AllCandidates(hubspot_by_state))
                kept == Overwritten(<<hs_match, hs_score>>, found)
            IN /\ hs_match' = kept[1]
               /\ hs_score' = kept[2]
               /\ stats' = Bump("hs_fallback", Accepted(kept[1], kept[2]))
               /\ phases' = SetPhase("hs_fallback_ran", "hs_fallback", found)
       ELSE UNCHANGED <<hs_match, hs_score, stats, phases>>
    /\ pc' = "cu_filtered"
    /\ UNCHANGED <<exit_code, stderr, written, BQ_CLIENT, ratio, unique_addresses,
                   facility_names, hs_df, corp_df, cu_df, hubspot_by_state,
                   clickup_by_state, corporations_candidates, i, target_state,
                   cu_match, cu_score, corp_match, corp_score, results>>
    /\ UNCHANGED <<scoreVars, contactVars, textVars>>

(* ClickUp, state-filtered phase *)
CuFiltered ==
    /\ pc = "cu_filtered"
    /\ IF StateFiltered(target_state, clickup_by_state)
       THEN LET looked == defaultdict_getitem(clickup_by_state, target_state)
                found == find_best_match_combined(unique_addresses[i], facility_names[i],
                                                  looked.val[target_state])
            IN /\ clickup_by_state' = looked
               /\ cu_match' = found[1]
               /\ cu_score' = found[2]
               /\ stats' = Bump("cu_state_match", Accepted(found[1], found[2]))
               /\ phases' = SetPhase("cu_filtered_ran", "cu_filtered", found)
       ELSE /\ cu_match' = None
            /\ cu_score' = 0
            /\ UNCHANGED <<stats, phases, clickup_by_state>>
    /\ pc' = "cu_fallback"
    /\ UNCHANGED <<exit_code, stderr, written, BQ_CLIENT, ratio, unique_addresses,
                   facility_names, hs_df, corp_df, cu_df, hubspot_by_state,
                   corporations_candidates, i, target_state,
                   hs_match, hs_score, corp_match, corp_score, results>>
    /\ UNCHANGED <<scoreVars, contactVars, textVars>>

(* ClickUp, fallback phase *)
CuFallback ==
    /\ pc = "cu_fallback"
    /\ IF NeedFallback(cu_match, cu_score)
       THEN LET found == find_best_match_combined(unique_addresses[i], facility_names[i],
                                                  AllCandidates(clickup_by_state))
                kept == Overwritten(<<cu_match, cu_score>>, found)
            IN /\ cu_match' = kept[1]
               /\ cu_score' = kept[2]
               /\ stats' = Bump("cu_fallback", Accepted(kept[1], kept[2]))
               /\ phases' = SetPhase("cu_fallback_ran", "cu_fallback", found)
       ELSE UNCHANGED <<cu_match, cu_score, stats, phases>>
    /\ pc' = "corporations"
    /\ UNCHANGED <<exit_code, stderr, written, BQ_CLIENT, ratio, unique_addresses,
                   facility_names, hs_df, corp_df, cu_df, hubspot_by_state,
                   clickup_by_state, corporations_candidates, i, target_state,
                   hs_match, hs_score, corp_match, corp_score, results>>
    /\ UNCHANGED <<scoreVars, contactVars, textVars>>

(* Corporations list: by name only, kept only when accepted *)
MatchCorporations ==
    /\ pc = "corporations"
    /\ LET best == IF corporations_candidates # << >>
                   THEN ScanCorporations(facility_names[i], corporations_candidates,
                                         None, 0)
                   ELSE NoPhase
           kept == corporations_candidates # << >> /\ Accepted(best[1], best[2])
       IN /\ corp_match' = IF kept THEN best[1] ELSE None
          /\ corp_score' = IF kept THEN best[2] ELSE 0
          /\ stats' = Bump("corp_fallback", kept)
          /\ phases' = [phases EXCEPT ![i] = [@ EXCEPT !.corp_best = best]]
    /\ pc' = "append_result"
    /\ UNCHANGED <<exit_code, stderr, written, BQ_CLIENT, ratio, unique_addresses,
                   facility_names, hs_df, corp_df, cu_df, hubspot_by_state,
                   clickup_by_state, corporations_candidates, i, target_state,
                   hs_match, hs_score, cu_match, cu_score, results>>
    /\ UNCHANGED <<scoreVars, contactVars, textVars>>

(* x.get(field) if x and score >= match_threshold else '' *)
Identifier(match, score, field) ==
    IF Accepted(match, score) THEN match[field] ELSE EmptyText

(* round(score, 3) if match else 0 *)
ReportedScore(match, score) == IF match # None THEN round3(score) ELSE 0

ResultRow ==
    [unique_address |-> unique_addresses[i],
     facility_name |-> facility_names[i],
     target_state |-> IF target_state # NoneStr THEN target_state ELSE "",
     hubspot_company_name |-> Identifier(hs_match, hs_score, "hubspot_company_name"),
     hubspot_record_id |-> Identifier(hs_match, hs_score, "hubspot_record_id"),
     hubspot_full_address |-> Identifier(hs_match, hs_score, "hubspot_full_address"),
     hubspot_parent_company |-> Identifier(hs_match, hs_score, "hubspot_parent_company"),
     hubspot_match_score |-> ReportedScore(hs_match, hs_score),
     clickup_task_name |-> Identifier(cu_match, cu_score, "clickup_task_name"),
     clickup_task_location |-> Identifier(cu_match, cu_score, "clickup_task_location"),
     clickup_match_score |-> ReportedScore(cu_match, cu_score),
     clickup_task_url |-> Identifier(cu_match, cu_score, "clickup_url"),
     corporations_task_name |->
         Identifier(corp_match, corp_score, "corporations_task_name"),
     corporations_task_location |->
         Identifier(corp_match, corp_score, "corporations_task_location"),
     corporations_task_url |-> Identifier(corp_match, corp_score, "corporations_task_url"),
     corporations_match_score |-> ReportedScore(corp_match, corp_score)]

(* Variant: the new row is put in front of the rows *)
PrependRow(rows, row) == <<row>> \o rows

(* results.append(result) *)
AppendRow(rows, row) == Append(rows, row)

AppendResult ==
    /\ pc = "append_result"
    /\ results' = AppendRow(results, ResultRow)
    /\ phases' = [phases EXCEPT ![i] = [@ EXCEPT !.hs_final = <<hs_match, hs_score>>,
                                                 !.cu_final = <<cu_match, cu_score>>,
                                                 !.corp_final = <<corp_match, corp_score>>]]
    /\ pc' = "next_target"
    /\ UNCHANGED <<exit_code, stderr, written, BQ_CLIENT, ratio, unique_addresses,
                   facility_names, hs_df, corp_df, cu_df, hubspot_by_state,
                   clickup_by_state, corporations_candidates, i, target_state,
                   hs_match, hs_score, cu_match, cu_score, corp_match, corp_score,
                   stats>>
    /\ UNCHANGED <<scoreVars, contactVars, textVars>>

(* Step 6: the sheet in the workbook, else a new file; an error of the     *)
(* second write is not caught and ends the run.                            *)
SaveOutcomes == {"ok", "sheet_failed", "both_failed"}

SaveResults ==
    /\ pc = "save"
    /\ \E outcome \in SaveOutcomes :
          CASE outcome = "ok" ->
                 /\ written' = Append(written, "Matched Facilities")
                 /\ pc' = "summary"
                 /\ UNCHANGED <<exit_code, stderr>>
            [] outcome = "sheet_failed" ->
                 /\ written' = Append(written, "matched_facilities_results.xlsx")
                 /\ pc' = "summary"
                 /\ UNCHANGED <<exit_code, stderr>>
            [] OTHER ->
                 /\ Exit1("Traceback")
                 /\ UNCHANGED written
    /\ UNCHANGED <<BQ_CLIENT, ratio, unique_addresses, facility_names, hs_df, corp_df,
                   cu_df, hubspot_by_state, clickup_by_state, corporations_candidates,
                   i, target_state, hs_match, hs_score, cu_match, cu_score, corp_match,
                   corp_score, phases, results, stats>>
    /\ UNCHANGED <<scoreVars, contactVars, textVars>>

(* The summary is printed and main returns *)
Summary ==
    /\ pc = "summary"
    /\ pc' = "done"
    /\ exit_code' = 0
    /\ UNCHANGED <<stderr, written, BQ_CLIENT, ratio, unique_addresses, facility_names, hs_df,
                   corp_df, cu_df, hubspot_by_state, clickup_by_state,
                   corporations_candidates, i, target_state, hs_match, hs_score,
                   cu_match, cu_score, corp_match, corp_score, phases, results, stats>>
    /\ UNCHANGED <<scoreVars, contactVars, textVars>>

Next ==
    \/ ReadExcel
    \/ QueryHubSpot
    \/ IndexHubSpot
    \/ QueryCorporations
    \/ IndexCorporations
    \/ QueryClickUp
    \/ IndexClickUp
    \/ NextTarget
    \/ HsFiltered
    \/ HsFallback
    \/ CuFiltered
    \/ CuFallback
    \/ MatchCorporations
    \/ AppendResult
    \/ SaveResults
    \/ Summary

Spec == Init /\ [][Next]_vars

---------------------------------------------------------------------------
(* The scoring functions applied to arbitrary arguments *)

ScoreTargetAddrs == {EmptyText, AddrTX}
ScoreTargetFacilities == {EmptyText, <<"oak">>}
ScoreCandidateAddrs == {EmptyText, AddrTX, AddrHubSpotTX}
ScoreCandidateNames == {EmptyText, <<"elm">>}

(* The pairs of different non-empty texts the library is asked about *)
ScorePairs ==
    {<<a, b>> \in (ScoreTargetAddrs \X ScoreCandidateAddrs)
                      \cup (ScoreTargetFacilities \X ScoreCandidateNames) :
        a # EmptyText /\ b # EmptyText /\ a # b}

(* candidates.append((addr, name, payload)): the payload names the position *)
CandidateList(pairs) ==
    [k \in 1..Len(pairs) |-> <<pairs[k][1], pairs[k][2], [hubspot_id |-> k]>>]

InitScore ==
    /\ pc = "score"
    /\ exit_code = "running"
    /\ stderr = ""
    /\ written = << >>
    /\ BQ_CLIENT = NoneStr
    /\ ratio \in [ScorePairs -> RatioVals]
    /\ MatchIdle
    /\ ContactsIdle
    /\ TextIdle
    /\ sc_target_addr \in ScoreTargetAddrs
    /\ sc_target_facility \in ScoreTargetFacilities
    /\ \E pairs \in SeqsUpTo(ScoreCandidateAddrs \X ScoreCandidateNames, MaxCands) :
           sc_candidates = CandidateList(pairs)
    /\ sc_scores = << >>
    /\ sc_best = <<None, 0>>

(* One call of find_best_match_combined, and of combined_similarity_score *)
(* on every candidate of the list                                         *)
ApplyScoring ==
    /\ pc = "score"
    /\ sc_scores' = [k \in 1..Len(sc_candidates) |->
                        combined_similarity_score(sc_target_addr, sc_target_facility,
                                                  sc_candidates[k][1],
                                                  sc_candidates[k][2])]
    /\ sc_best' = find_best_match_combined(sc_target_addr, sc_target_facility,
                                           sc_candidates)
    /\ pc' = "scored"
    /\ UNCHANGED <<exit_code, stderr, written, BQ_CLIENT, ratio, sc_target_addr,
                   sc_target_facility, sc_candidates, matchVars, contactVars, textVars>>

NextScore == ApplyScoring

SpecScore == InitScore /\ [][NextScore]_vars

---------------------------------------------------------------------------
(* process_contact_import: texts are token sequences, " " is white space *)

RECURSIVE lstrip(_)
lstrip(text) ==
    IF text # << >> /\ Head(text) = " " THEN lstrip(Tail(text)) ELSE text

RECURSIVE rstrip(_)
rstrip(text) ==
    IF text # << >> /\ text[Len(text)] = " "
    THEN rstrip(SubSeq(text, 1, Len(text) - 1))
    ELSE text

(* str.strip() *)
strip(text) == rstrip(lstrip(text))

(* str.split() *)
split(text) == SelectSeq(text, LAMBDA tok : tok # " ")

(* str.lower() on a text *)
lower_text(text) == [k \in 1..Len(text) |-> lower(text[k])]

(* str(x).lower().strip() if pd.notna(x) else '' *)
lower_strip_or_empty(x) == IF pd_notna(x) THEN strip(lower_text(x)) ELSE EmptyText

(* str(x).strip() if pd.notna(x) else '' *)
strip_or_empty(x) == IF pd_notna(x) THEN strip(x) ELSE EmptyText

(* [a-zA-Z0-9]+ *)
IsAlnum(tok) == tok \in {"86a2vwzc1", "li"}

(* re.search(r'/t/([a-zA-Z0-9]+)', url): the first "/t/" followed by an id *)
RECURSIVE SearchTaskId(_)
SearchTaskId(url) ==
    IF Len(url) < 2 THEN EmptyText
    ELSE IF url[1] = "/t/" /\ IsAlnum(url[2]) THEN <<url[2]>>
    ELSE SearchTaskId(Tail(url))

extract_clickup_task_id(url) ==
    IF ~pd_notna(url) \/ ~truthy(url) THEN EmptyText ELSE SearchTaskId(url)

(* split_name returns (first, last) *)
split_name(full_name) ==
    IF ~pd_notna(full_name) \/ ~truthy(full_name) THEN <<EmptyText, EmptyText>>
    ELSE LET parts == split(strip(full_name))
         IN IF Len(parts) = 1 THEN <<<<parts[1]>>, EmptyText>>
            ELSE IF Len(parts) = 2 THEN <<<<parts[1]>>, <<parts[2]>>>>
            ELSE <<<<parts[1]>>, Tail(parts)>>

(* A dict: d[k] = v *)
EmptyDict == << >>
DictSet(d, k, v) == [x \in DOMAIN d \cup {k} |-> IF x = k THEN v ELSE d[x]]

(* Step 2: the address lookup built from the rows of facilities_df *)
RECURSIVE BuildAddressLookup(_, _)
BuildAddressLookup(rows, lookup) ==
    IF rows = << >> THEN lookup
    ELSE LET row == Head(rows)
             addr == strip_or_empty(row.unique_address)
         IN BuildAddressLookup(Tail(rows),
                IF truthy(addr)
                THEN DictSet(lookup, addr,
                             [hubspot_record_id |-> row.hubspot_record_id,
                              clickup_task_url |-> row.clickup_task_url,
                              hubspot_company_name |-> row.hubspot_company_name])
                ELSE lookup)

ContactEntry(row) ==
    [contact_record_id |-> row.contact_record_id,
     hs_first_name |-> row.hs_first_name,
     hs_last_name |-> row.hs_last_name,
     hs_company_name |-> row.hs_company_name]

name_key(first, last) == first \o <<"|">> \o last

(* load_hubspot_contacts: the two loops over df.iterrows() *)
RECURSIVE BuildEmailLookup(_, _)
BuildEmailLookup(rows, lookup) ==
    IF rows = << >> THEN lookup
    ELSE LET row == Head(rows)
             email == lower_strip_or_empty(row.hs_email)
         IN BuildEmailLookup(Tail(rows),
                IF truthy(email) THEN DictSet(lookup, email, ContactEntry(row))
                ELSE lookup)

RECURSIVE BuildNameLookup(_, _)
BuildNameLookup(rows, lookup) ==
    IF rows = << >> THEN lookup
    ELSE LET row == Head(rows)
             first == lower_strip_or_empty(row.hs_first_name)
             last == lower_strip_or_empty(row.hs_last_name)
         IN BuildNameLookup(Tail(rows),
                IF truthy(first) /\ truthy(last)
                THEN DictSet(lookup, name_key(first, last), ContactEntry(row))
                ELSE lookup)

(* Variant: the name is looked up before the email *)
check_name_before_email(emails, names, first_name, last_name, email) ==
    IF /\ truthy(first_name)
       /\ truthy(last_name)
       /\ name_key(strip(lower_text(first_name)), strip(lower_text(last_name)))
              \in DOMAIN names
    THEN names[name_key(strip(lower_text(first_name)), strip(lower_text(last_name)))]
    ELSE IF truthy(email) /\ strip(lower_text(email)) \in DOMAIN emails
    THEN emails[strip(lower_text(email))]
    ELSE None

check_hubspot_contact_exists(emails, names, first_name, last_name, email) ==
    IF truthy(email) /\ strip(lower_text(email)) \in DOMAIN emails
    THEN emails[strip(lower_text(email))]
    ELSE IF /\ truthy(first_name)
            /\ truthy(last_name)
            /\ name_key(strip(lower_text(first_name)), strip(lower_text(last_name)))
                   \in DOMAIN names
    THEN names[name_key(strip(lower_text(first_name)), strip(lower_text(last_name)))]
    ELSE None

---------------------------------------------------------------------------
(* process_contact_import.main *)

AddrElm == <<"1", "elm">>
UrlTask == <<"https://app.clickup.com", "/t/", "86a2vwzc1">>
UrlList == <<"https://app.clickup.com", "/v/", "li">>

ContactRow(name, emails, address, facility) ==
    [name |-> name, emails |-> emails, address |-> address, facility |-> facility]

ContactRowPool ==
    {ContactRow(<<"Mary", "Watson">>, <<"M@X.COM">>, <<" ">> \o AddrElm, <<"Oak">>),
     ContactRow(<<"mary", "watson">>, <<"m@x.com", " ">>, AddrElm, <<"oak">>),
     ContactRow(<<"Mary", "Ann", "Watson">>, NaN, NaN, NaN),
     ContactRow(NaN, <<"j@y.com">>, <<"9", "pine">>, <<"Pine">>)}

FacilityRow(unique_address, hubspot_record_id, clickup_task_url) ==
    [unique_address |-> unique_address, hubspot_record_id |-> hubspot_record_id,
     clickup_task_url |-> clickup_task_url, hubspot_company_name |-> <<"Oak">>]

FacilityRowPool ==
    {FacilityRow(AddrElm, "hs1", UrlTask),
     FacilityRow(AddrElm \o <<" ">>, "hs2", UrlList),
     FacilityRow(NaN, "hs3", NaN)}

HsContactRow(id, first, last, email) ==
    [contact_record_id |-> id, hs_first_name |-> first, hs_last_name |-> last,
     hs_email |-> email, hs_company_name |-> <<"Oak">>]

HsContactRowPool ==
    {HsContactRow("c1", <<"Mary">>, <<"Watson">>, <<"M@X.COM">>),
     HsContactRow("c2", <<"MARY">>, <<"Watson", " ">>, NaN),
     HsContactRow("c3", NaN, NaN, <<"j@y.com">>)}

(* contact_df[column] = '' for the eight new columns *)
NewColumns ==
    [HubSpot_Company_Association |-> EmptyText,
     ClickUp_Company_Association |-> EmptyText,
     First_Name |-> EmptyText,
     Last_Name |-> EmptyText,
     HubSpot_Contact_Record_ID |-> EmptyText,
     HS_Contact_First_Name |-> EmptyText,
     HS_Contact_Last_Name |-> EmptyText,
     HS_Contact_Company |-> EmptyText]

InitContacts ==
    /\ pc = "read_sheets"
    /\ exit_code = "running"
    /\ stderr = ""
    /\ written = << >>
    /\ BQ_CLIENT = NoneStr
    /\ ratio = << >>
    /\ MatchIdle
    /\ ScoreIdle
    /\ ContactsIdle
    /\ TextIdle

(* Step 1: read the two sheets *)
ReadSheets ==
    /\ pc = "read_sheets"
    /\ \/ /\ contact_df' \in SeqsUpTo(ContactRowPool, MaxContacts)
          /\ facilities_df' \in SeqsUpTo(FacilityRowPool, MaxFacilities)
          /\ pc' = "address_lookup"
          /\ UNCHANGED <<exit_code, stderr>>
       \/ /\ Exit1("Error reading Excel")
          /\ UNCHANGED <<contact_df, facilities_df>>
    /\ UNCHANGED <<written, BQ_CLIENT, ratio, warnings, address_lookup, hs_contacts,
                   email_lookup, name_lookup, idx, matched_count, existing_contacts,
                   matchVars, scoreVars, textVars>>

(* Step 2: the address lookup *)
AddressLookup ==
    /\ pc = "address_lookup"
    /\ address_lookup' = BuildAddressLookup(facilities_df, EmptyDict)
    /\ pc' = "load_contacts"
    /\ UNCHANGED <<exit_code, stderr, written, BQ_CLIENT, ratio, warnings, contact_df,
                   facilities_df, hs_contacts, email_lookup, name_lookup, idx,
                   matched_count, existing_contacts, matchVars, scoreVars, textVars>>

(* Step 3: load_hubspot_contacts, then the new columns and the counters of *)
(* step 4. The client is made outside the try block; a query that fails    *)
(* is caught, a warning is printed and empty lookups are returned.         *)
LoadHubSpotContacts ==
    /\ pc = "load_contacts"
    /\ \E outcome \in FetchOutcomes :
          IF BQ_CLIENT = NoneStr /\ outcome = "auth_failed"
          THEN /\ Exit1("Traceback")
               /\ UNCHANGED <<BQ_CLIENT, warnings, contact_df, hs_contacts,
                              email_lookup, name_lookup>>
          ELSE /\ BQ_CLIENT' = "client"
               /\ IF outcome = "query_failed"
                  THEN /\ warnings' = warnings \cup {"Error loading HubSpot contacts"}
                       /\ hs_contacts' = << >>
                  ELSE /\ hs_contacts' \in SeqsUpTo(HsContactRowPool, MaxHsContacts)
                       /\ UNCHANGED warnings
               /\ email_lookup' = BuildEmailLookup(hs_contacts', EmptyDict)
               /\ name_lookup' = BuildNameLookup(hs_contacts', EmptyDict)
               /\ contact_df' = [k \in 1..Len(contact_df) |-> contact_df[k] @@ NewColumns]
               /\ pc' = "process"
               /\ UNCHANGED <<exit_code, stderr>>
    /\ UNCHANGED <<written, ratio, facilities_df, address_lookup, idx, matched_count,
                   existing_contacts, matchVars, scoreVars, textVars>>

(* hs_contact of one pass of the loop of step 4 *)
HsContactOf(row) ==
    LET names == split_name(row.name)
    IN check_hubspot_contact_exists(email_lookup, name_lookup, names[1], names[2],
                                    strip_or_empty(row.emails))

(* The columns one pass of the loop of step 4 sets in a row *)
Enriched(row) ==
    LET addr == strip_or_empty(row.address)
        names == split_name(row.name)
        hs_contact == HsContactOf(row)
        with_facility ==
            IF addr \in DOMAIN address_lookup
            THEN [row EXCEPT
                    !.HubSpot_Company_Association = address_lookup[addr].hubspot_record_id,
                    !.ClickUp_Company_Association =
                        extract_clickup_task_id(address_lookup[addr].clickup_task_url)]
            ELSE row
        with_names == [with_facility EXCEPT !.First_Name = names[1],
                                            !.Last_Name = names[2]]
    IN IF hs_contact # None
       THEN [with_names EXCEPT
               !.HubSpot_Contact_Record_ID = hs_contact.contact_record_id,
               !.HS_Contact_First_Name = hs_contact.hs_first_name,
               !.HS_Contact_Last_Name = hs_contact.hs_last_name,
               !.HS_Contact_Company = hs_contact.hs_company_name]
       ELSE with_names

(* Step 4: one pass of the loop, or the end of the loop *)
ProcessContact ==
    /\ pc = "process"
    /\ IF idx < Len(contact_df)
       THEN LET row == contact_df[idx + 1]
                new_row == Enriched(row)
            IN /\ contact_df' = [contact_df EXCEPT ![idx + 1] = new_row]
               /\ matched_count' =
                      IF strip_or_empty(row.address) \in DOMAIN address_lookup
                      THEN matched_count + 1 ELSE matched_count
               /\ existing_contacts' =
                      IF HsContactOf(row) # None
                      THEN existing_contacts + 1 ELSE existing_contacts
               /\ idx' = idx + 1
               /\ UNCHANGED pc
       ELSE /\ pc' = "dedup"
            /\ UNCHANGED <<contact_df, matched_count, existing_contacts, idx>>
    /\ UNCHANGED <<exit_code, stderr, written, BQ_CLIENT, ratio, warnings,
                   facilities_df, address_lookup, hs_contacts, email_lookup,
                   name_lookup, matchVars, scoreVars, textVars>>

(* column.fillna('').str.lower().str.strip() *)
KeyPart(x) == IF pd_notna(x) THEN strip(lower_text(x)) ELSE EmptyText

dedup_key(row) ==
    KeyPart(row.facility) \o <<"|">> \o KeyPart(row.First_Name) \o <<"|">>
        \o KeyPart(row.Last_Name) \o <<"|">> \o KeyPart(row.emails)

(* Variant: of the rows with one key the last is kept *)
drop_duplicates_keep_last(rows) ==
    LET last_seen == {k \in 1..Len(rows) :
                         \A j \in (k + 1)..Len(rows) :
                             dedup_key(rows[j]) # dedup_key(rows[k])}
        RECURSIVE Keep(_)
        Keep(k) == IF k > Len(rows) THEN << >>
                   ELSE IF k \in last_seen THEN <<rows[k]>> \o Keep(k + 1)
                   ELSE Keep(k + 1)
    IN Keep(1)

(* drop_duplicates(subset=['dedup_key'], keep='first') *)
drop_duplicates(rows) ==
    LET first_seen == {k \in 1..Len(rows) :
                          \A j \in 1..(k - 1) : dedup_key(rows[j]) # dedup_key(rows[k])}
        RECURSIVE Keep(_)
        Keep(k) == IF k > Len(rows) THEN << >>
                   ELSE IF k \in first_seen THEN <<rows[k]>> \o Keep(k + 1)
                   ELSE Keep(k + 1)
    IN Keep(1)

(* Step 5 *)
Deduplicate ==
    /\ pc = "dedup"
    /\ contact_df' = drop_duplicates(contact_df)
    /\ pc' = "save_contacts"
    /\ UNCHANGED <<exit_code, stderr, written, BQ_CLIENT, ratio, warnings,
                   facilities_df, address_lookup, hs_contacts, email_lookup,
                   name_lookup, idx, matched_count, existing_contacts, matchVars,
                   scoreVars, textVars>>

(* Step 6: the sheet is written, or the error is printed and the run goes on *)
SaveContacts ==
    /\ pc = "save_contacts"
    /\ \/ /\ written' = Append(written, "HubSpot Contacts Processed")
          /\ UNCHANGED stderr
       \/ /\ stderr' = "Error saving"
          /\ UNCHANGED written
    /\ pc' = "contacts_summary"
    /\ UNCHANGED <<exit_code, BQ_CLIENT, ratio, warnings, contact_df, facilities_df,
                   address_lookup, hs_contacts, email_lookup, name_lookup, idx,
                   matched_count, existing_contacts, matchVars, scoreVars, textVars>>

ContactsSummary ==
    /\ pc = "contacts_summary"
    /\ pc' = "done"
    /\ exit_code' = 0
    /\ UNCHANGED <<stderr, written, BQ_CLIENT, ratio, matchVars, scoreVars,
                   contactVars, textVars>>

NextContacts ==
    \/ ReadSheets
    \/ AddressLookup
    \/ LoadHubSpotContacts
    \/ ProcessContact
    \/ Deduplicate
    \/ SaveContacts
    \/ ContactsSummary

SpecContacts == InitContacts /\ [][NextContacts]_vars

---------------------------------------------------------------------------
(* normalize_address, and the text functions applied to arbitrary texts.   *)
(* A text is a sequence of chunks that single blanks separate; the chunk   *)
(* " " is further white space.                                             *)

CountryName == "united states of america"

(* re.sub(r'\s+', ' ', addr) on a stripped text *)
collapse(text) == SelectSeq(text, LAMBDA tok : tok # " ")

(* re.sub(pattern, '', addr) for ,?\s*<suffix>$ *)
DropSuffix(text, suffix) ==
    IF text # << >> /\ text[Len(text)] = suffix
    THEN IF Len(text) >= 2 /\ text[Len(text) - 1] = ","
         THEN SubSeq(text, 1, Len(text) - 2)
         ELSE SubSeq(text, 1, Len(text) - 1)
    ELSE text

normalize_address(addr) ==
    IF ~pd_notna(addr) THEN EmptyText
    ELSE strip(DropSuffix(DropSuffix(collapse(strip(lower_text(addr))), CountryName),
                          "usa"))

NormalizeChunks == {"oak", ",", " ", "usa", "USA", CountryName}
StateChunks == {"oak", ",", "TX", "tx", "zz", "78701"}

InitText ==
    /\ pc \in {"normalize", "extract_state"}
    /\ exit_code = "running"
    /\ stderr = ""
    /\ written = << >>
    /\ BQ_CLIENT = NoneStr
    /\ ratio = << >>
    /\ MatchIdle
    /\ ScoreIdle
    /\ ContactsIdle
    /\ tx_input \in {NaN} \cup SeqsUpTo(IF pc = "normalize" THEN NormalizeChunks
                                                            ELSE StateChunks,
                                       MaxTextLen)
    /\ tx_once = EmptyText
    /\ tx_twice = EmptyText
    /\ tx_state = NoneStr

(* normalize_address(A), and normalize_address of what it returned *)
ApplyNormalize ==
    /\ pc = "normalize"
    /\ tx_once' = normalize_address(tx_input)
    /\ tx_twice' = normalize_address(tx_once')
    /\ pc' = "normalized"
    /\ UNCHANGED <<exit_code, stderr, written, BQ_CLIENT, ratio, tx_input, tx_state,
                   matchVars, scoreVars, contactVars>>

(* One call of extract_state_from_address *)
ApplyExtractState ==
    /\ pc = "extract_state"
    /\ tx_state' = extract_state_from_address(tx_input)
    /\ pc' = "state_extracted"
    /\ UNCHANGED <<exit_code, stderr, written, BQ_CLIENT, ratio, tx_input, tx_once,
                   tx_twice, matchVars, scoreVars, contactVars>>

NextText ==
    \/ ApplyNormalize
    \/ ApplyExtractState

SpecText == InitText /\ [][NextText]_vars

---------------------------------------------------------------------------
(* Properties of match_addresses.main *)

TwoPhaseSystems == {"hs", "cu"}

(* What the run recorded for result row k and a two-phase system *)
View(k, sys) ==
    IF sys = "hs"
    THEN [index |-> hubspot_by_state,
          filtered_ran |-> phases[k].hs_filtered_ran, filtered |-> phases[k].hs_filtered,
          fallback_ran |-> phases[k].hs_fallback_ran, fallback |-> phases[k].hs_fallback,
          final |-> phases[k].hs_final,
          reported |-> results[k].hubspot_match_score,
          ids |-> <<results[k].hubspot_company_name, results[k].hubspot_record_id,
                    results[k].hubspot_full_address, results[k].hubspot_parent_company>>]
    ELSE [index |-> clickup_by_state,
          filtered_ran |-> phases[k].cu_filtered_ran, filtered |-> phases[k].cu_filtered,
          fallback_ran |-> phases[k].cu_fallback_ran, fallback |-> phases[k].cu_fallback,
          final |-> phases[k].cu_final,
          reported |-> results[k].clickup_match_score,
          ids |-> <<results[k].clickup_task_name, results[k].clickup_task_url,
                    results[k].clickup_task_location, EmptyText>>]

(* The identifier fields a candidate's payload fills, in the order of View's ids *)
IdsOf(match, sys) ==
    IF sys = "hs"
    THEN <<match.hubspot_company_name, match.hubspot_record_id,
           match.hubspot_full_address, match.hubspot_parent_company>>
    ELSE IF sys = "cu"
    THEN <<match.clickup_task_name, match.clickup_url, match.clickup_task_location,
           EmptyText>>
    ELSE <<match.corporations_task_name, match.corporations_task_url,
           match.corporations_task_location, EmptyText>>

Blank == <<EmptyText, EmptyText, EmptyText, EmptyText>>

(* C1: for every target and each of HubSpot and ClickUp, the state-filtered  *)
(* phase runs exactly when the target's state is a key of the index; the     *)
(* fallback scan over all buckets runs if and only if the state-filtered     *)
(* phase was skipped, found no candidate or scored below 0.5; a filtered     *)
(* candidate with score >= 0.5 is the one reported and no fallback happens.  *)
C1_FallbackIffFilteredMissed ==
    \A k \in 1..Len(results) : \A sys \in TwoPhaseSystems :
        LET v == View(k, sys)
            state == extract_state_from_address(unique_addresses[k])
            missed == \/ ~v.filtered_ran
                      \/ v.filtered[1] = None
                      \/ v.filtered[2] < 5000
        IN /\ v.filtered_ran <=> (state # NoneStr /\ state \in DOMAIN v.index.val)
           /\ v.fallback_ran <=> missed
           /\ v.fallback_ran =>
                  v.fallback = find_best_match_combined(unique_addresses[k],
                                   facility_names[k], AllCandidates(v.index))
           /\ ~missed =>
                  /\ v.final = v.filtered
                  /\ v.reported = round3(v.filtered[2])
                  /\ v.ids = IdsOf(v.filtered[1], sys)

(* A row whose HubSpot filtered match was accepted without a fallback scan,  *)
(* while its ClickUp filtered match scored below 0.5 and the fallback ran    *)
C1_Witness ==
    \E k \in 1..Len(results) :
        /\ phases[k].hs_filtered_ran /\ phases[k].hs_filtered[2] >= 5000
        /\ ~phases[k].hs_fallback_ran
        /\ phases[k].cu_filtered_ran /\ phases[k].cu_filtered[1] # None
        /\ phases[k].cu_filtered[2] < 5000
        /\ phases[k].cu_fallback_ran

(* C2: when the best state-filtered score is below 0.5, the candidate and    *)
(* score carried into the output row are exactly those the fallback scan     *)
(* returned, whatever it returned.                                           *)
C2_FallbackResultReported ==
    \A k \in 1..Len(results) : \A sys \in TwoPhaseSystems :
        LET v == View(k, sys) IN
        (v.filtered_ran /\ v.filtered[2] < 5000) =>
            /\ v.fallback_ran
            /\ v.fallback = find_best_match_combined(unique_addresses[k],
                                facility_names[k], AllCandidates(v.index))
            /\ v.final = v.fallback
            /\ v.reported = (IF v.fallback[1] # None THEN round3(v.fallback[2]) ELSE 0)
            /\ v.ids = (IF v.fallback[1] # None /\ v.fallback[2] >= 5000
                        THEN IdsOf(v.fallback[1], sys) ELSE Blank)

(* A row whose rejected filtered candidate differs from the candidate the    *)
(* fallback returned with the same score                                     *)
C2_Witness ==
    \E k \in 1..Len(results) : \E sys \in TwoPhaseSystems :
        LET v == View(k, sys) IN
        /\ v.filtered_ran /\ v.filtered[1] # None /\ v.filtered[2] < 5000
        /\ v.fallback_ran /\ v.fallback[1] # v.filtered[1]
        /\ v.fallback[2] = v.filtered[2]
        /\ v.final = v.fallback

Systems == {"hs", "cu", "corp"}

(* The best candidate and score a system ended with for row k, the score    *)
(* the row reports and the identifier fields it carries                     *)
Outcome(k, sys) ==
    IF sys = "corp"
    THEN [best |-> phases[k].corp_best, final |-> phases[k].corp_final,
          reported |-> results[k].corporations_match_score,
          ids |-> <<results[k].corporations_task_name, results[k].corporations_task_url,
                    results[k].corporations_task_location, EmptyText>>]
    ELSE [best |-> View(k, sys).final, final |-> View(k, sys).final,
          reported |-> View(k, sys).reported, ids |-> View(k, sys).ids]

(* C3: in every output row and for each of the three systems, the           *)
(* identifier fields are the best candidate's when the system's final score *)
(* is >= 0.5, and all blank when it is below 0.5 or there is no candidate.  *)
C3_IdentifiersOnlyWhenAccepted ==
    \A k \in 1..Len(results) : \A sys \in Systems :
        LET o == Outcome(k, sys) IN
        /\ o.ids = (IF o.final[1] # None /\ o.final[2] >= 5000
                    THEN IdsOf(o.final[1], sys) ELSE Blank)
        /\ sys = "corp" => o.final \in {o.best, NoPhase}
        /\ sys # "corp" =>
               o.final = (IF View(k, sys).fallback_ran THEN View(k, sys).fallback
                          ELSE View(k, sys).filtered)

(* A row with a HubSpot candidate below 0.5, so blank, beside a ClickUp     *)
(* candidate at or above 0.5 whose identifiers are filled in                *)
C3_Witness ==
    \E k \in 1..Len(results) :
        /\ phases[k].hs_final[1] # None /\ phases[k].hs_final[2] < 5000
        /\ results[k].hubspot_record_id = EmptyText
        /\ phases[k].cu_final[1] # None /\ phases[k].cu_final[2] >= 5000
        /\ results[k].clickup_task_name # EmptyText

(* C4: for each of the three systems, a best candidate whose score s is     *)
(* below 0.5 is reported with match score round(s, 3) and blank             *)
(* identifiers; the reported score is 0 only when no candidate was found.   *)
C4_BelowThresholdScoreReported ==
    \A k \in 1..Len(results) : \A sys \in Systems :
        LET o == Outcome(k, sys) IN
        /\ (o.best[1] # None /\ o.best[2] < 5000) =>
               (o.reported = round3(o.best[2]) /\ o.ids = Blank)
        /\ o.reported = 0 => o.best[1] = None

(* The HubSpot and ClickUp half of C4, which the code keeps *)
C4_TwoPhaseSystemsReportScore ==
    \A k \in 1..Len(results) : \A sys \in TwoPhaseSystems :
        LET o == Outcome(k, sys) IN
        /\ (o.best[1] # None /\ o.best[2] < 5000) =>
               (o.reported = round3(o.best[2]) /\ o.ids = Blank)
        /\ o.reported = 0 => o.best[1] = None

RangeOf(seq) == {seq[k] : k \in 1..Len(seq)}

(* The bucket a candidate with this address belongs to *)
ExpectedBucket(addr) ==
    LET state == extract_state_from_address(addr)
    IN IF state \in us_states THEN state ELSE "__NO_STATE__"

RECURSIVE ExpectedBuckets(_)
ExpectedBuckets(cands) ==
    IF cands = << >> THEN << >>
    ELSE <<ExpectedBucket(Head(cands)[1])>> \o ExpectedBuckets(Tail(cands))

(* The candidates tagged b, in order *)
RECURSIVE Tagged(_, _, _)
Tagged(cands, tags, b) ==
    IF cands = << >> THEN << >>
    ELSE (IF Head(tags) = b THEN <<Head(cands)>> ELSE << >>)
         \o Tagged(Tail(cands), Tail(tags), b)

(* index holds the candidates with an address, each in its own bucket only, *)
(* in source order, and has no other key                                    *)
Bucketed(index, cands) ==
    LET kept == SelectSeq(cands, LAMBDA c : c[1] # EmptyText)
        tags == ExpectedBuckets(kept)
        expected == RangeOf(tags)
    IN /\ DOMAIN index.val = expected
       /\ RangeOf(index.keys) = expected
       /\ Len(index.keys) = Cardinality(expected)
       /\ \A b \in expected : index.val[b] = Tagged(kept, tags, b)

MatchingPcs ==
    {"next_target", "hs_filtered", "hs_fallback", "cu_filtered", "cu_fallback",
     "corporations", "append_result"}

C8_Buckets ==
    /\ pc # "index_hubspot" =>
           Bucketed(hubspot_by_state,
                    [j \in 1..Len(hs_df) |-> HubSpotCandidate(hs_df[j])])
    /\ pc # "index_clickup" =>
           Bucketed(clickup_by_state,
                    [j \in 1..Len(cu_df) |-> ClickUpCandidate(cu_df[j])])

C8_Unchanged ==
    pc \in MatchingPcs =>
        /\ hubspot_by_state' = hubspot_by_state
        /\ clickup_by_state' = clickup_by_state

(* C8: once an index is built and in every state of the matching loop,      *)
(* every source row with an address is in exactly one bucket, that of its   *)
(* derived state or else the sentinel bucket, rows without an address are   *)
(* in none, and matching a target changes neither the keys nor a bucket.    *)
C8_IndexFixedAfterConstruction == []C8_Buckets /\ [][C8_Unchanged]_vars

(* A target whose state is no key of the HubSpot index has been matched     *)
(* against an index with a state bucket and the sentinel bucket, built from *)
(* rows of which one has no address                                         *)
C8_Witness ==
    /\ Len(results) >= 1
    /\ results[1].target_state = "TX"
    /\ ~HasKey(clickup_by_state, "TX")
    /\ HasKey(hubspot_by_state, "TX") /\ HasKey(hubspot_by_state, "__NO_STATE__")
    /\ \E j \in 1..Len(cu_df) : ~truthy(extract_clickup_location(cu_df[j]))

FetchErrors == {"BigQuery authentication failed", "Failed to read from BigQuery"}

(* C9: if a fetch fails or the credentials are rejected, the run ends with  *)
(* exit code 1 and has written nothing: no sheet, no fallback file.         *)
C9_NoOutputBeforeFetchAbort ==
    stderr \in FetchErrors => (exit_code = 1 /\ written = << >>)

---------------------------------------------------------------------------
(* Properties of the scoring functions *)

MaxOf(scores) ==
    IF scores = << >> THEN 0
    ELSE CHOOSE m \in RangeOf(scores) : \A n \in RangeOf(scores) : n <= m

(* C5: find_best_match_combined returns the maximum combined score of the   *)
(* sequence with the payload of the earliest candidate that attains it, and *)
(* (None, 0) when the sequence is empty or every candidate scores 0.        *)
C5_EarliestMaximum ==
    pc = "scored" =>
        LET m == MaxOf(sc_scores)
        IN /\ sc_best[2] = m
           /\ m = 0 => sc_best[1] = None
           /\ m > 0 =>
                  \E k \in 1..Len(sc_scores) :
                      /\ sc_scores[k] = m
                      /\ \A j \in 1..(k - 1) : sc_scores[j] < m
                      /\ sc_best[1] = sc_candidates[k][3]

(* A tie for the maximum between two candidates, the first one returned *)
C5_Witness ==
    /\ pc = "scored"
    /\ \E j, k \in 1..Len(sc_scores) :
           /\ j < k
           /\ sc_scores[j] = sc_scores[k]
           /\ sc_scores[j] = MaxOf(sc_scores)
           /\ sc_scores[j] > 0
           /\ sc_best[1] = sc_candidates[j][3]

(* A list whose candidates all score 0 *)
C5_WitnessAllZero ==
    /\ pc = "scored"
    /\ Len(sc_scores) >= 2
    /\ MaxOf(sc_scores) = 0
    /\ sc_best = <<None, 0>>

(* The scores of the two texts of candidate k, as the library gives them *)
AddrScore(k) == token_set_ratio(sc_target_addr, sc_candidates[k][1])
NameScore(k) == token_set_ratio(sc_target_facility, sc_candidates[k][2])
BothAddresses(k) == sc_target_addr # EmptyText /\ sc_candidates[k][1] # EmptyText
BothNames(k) == sc_target_facility # EmptyText /\ sc_candidates[k][2] # EmptyText

(* C6: with both addresses non-empty, the score is 0.6*addr + 0.4*facility  *)
(* whenever both names are non-empty, a name similarity of 0 included, and  *)
(* the address score when a name is empty.                                  *)
C6_WeightedWheneverBothNamed ==
    pc = "scored" =>
        \A k \in 1..Len(sc_scores) :
            BothAddresses(k) =>
                sc_scores[k] = IF BothNames(k)
                               THEN ((AddrScore(k) * 6) + (NameScore(k) * 4)) \div 10
                               ELSE AddrScore(k)

(* What the code does: the weighting only when the name similarity is > 0 *)
C6_WeightedWhenNamesSimilar ==
    pc = "scored" =>
        \A k \in 1..Len(sc_scores) :
            BothAddresses(k) =>
                sc_scores[k] = IF BothNames(k) /\ NameScore(k) > 0
                               THEN ((AddrScore(k) * 6) + (NameScore(k) * 4)) \div 10
                               ELSE AddrScore(k)

(* C7: the combined score lies in [0, 1], and is exactly 0 whenever the     *)
(* target address or the candidate address is empty, whatever the names.    *)
C7_RangeAndEmptyAddress ==
    pc = "scored" =>
        \A k \in 1..Len(sc_scores) :
            /\ sc_scores[k] \in 0..Scale
            /\ ~BothAddresses(k) => sc_scores[k] = 0

(* An empty address next to two names the library finds similar, and a *)
(* candidate that reaches 1.0                                          *)
C7_Witness ==
    /\ pc = "scored"
    /\ \E k \in 1..Len(sc_scores) :
           /\ ~BothAddresses(k)
           /\ BothNames(k)
           /\ NameScore(k) > 0
           /\ sc_scores[k] = 0
    /\ \E k \in 1..Len(sc_scores) : BothAddresses(k) /\ AddrScore(k) = Scale

---------------------------------------------------------------------------
(* Properties of the two pipelines together *)

(* C10: a failed fetch from the data source ends the run; the run never     *)
(* goes on to the matching or enrichment and save steps with empty data.    *)
(* For process_contact_import: once the warning of the failed query is      *)
(* printed, the run has ended with exit code 1.                             *)
C10_FailedFetchAbortsContacts ==
    "Error loading HubSpot contacts" \in warnings => (pc = "exit" /\ exit_code = 1)

(* The same for match_addresses, where it holds *)
C10_FailedFetchAbortsMatching ==
    [][(pc \in {"query_hubspot", "query_corporations", "query_clickup"}
           /\ pc' \notin {"index_hubspot", "index_corporations", "index_clickup"})
         => (pc' = "exit" /\ exit_code' = 1 /\ stderr' \in FetchErrors)]_vars

---------------------------------------------------------------------------
(* Properties of the save steps *)

(* C11: when the write of the result rows to the output sheet fails, the    *)
(* same rows are written to a fallback destination, and the run fails only  *)
(* if that write fails too. For process_contact_import: once the error of   *)
(* the failed save is printed, the rows are written somewhere else or the   *)
(* run has ended at sys.exit(1) or an uncaught exception.                    *)
C11_ContactsSaveFailureRecovered ==
    stderr = "Error saving" => (written # << >> \/ pc = "exit")

(* The same for match_addresses, where it holds: after the save step the   *)
(* rows are in the sheet or in the fallback file, or the run has failed    *)
C11_MatchingSaveFailureRecovered ==
    /\ pc \in {"summary", "done"} =>
           \/ written = <<"Unique Addresses", "Matched Facilities">>
           \/ written = <<"Unique Addresses", "matched_facilities_results.xlsx">>
    /\ stderr = "Traceback" => exit_code = 1

---------------------------------------------------------------------------
(* Properties of the text functions *)

(* C12: normalize_address is idempotent: normalizing what it returned gives *)
(* the same text again, repeated and combined country suffixes included.    *)
C12_NormalizeIdempotent ==
    pc = "normalized" => tx_twice = tx_once

(* What does hold: a second pass only ever drops a further suffix *)
C12_SecondPassOnlyShortens ==
    pc = "normalized" =>
        /\ Len(tx_twice) <= Len(tx_once)
        /\ tx_twice = SubSeq(tx_once, 1, Len(tx_twice))

(* C13: for every input, a missing value and the empty string included,    *)
(* extract_state_from_address raises nothing and returns None or one of    *)
(* the 56 upper-case state and territory codes.                            *)
C13_StateOrNoneNeverRaises ==
    pc = "state_extracted" => tx_state \in us_states \cup {NoneStr}

(* What does hold: the same for every input that is a str *)
C13_StateOrNoneForText ==
    (pc = "state_extracted" /\ tx_input # NaN) => tx_state \in us_states \cup {NoneStr}

---------------------------------------------------------------------------
(* Properties of process_contact_import.main *)

(* A column value lowercased and trimmed, a missing one as the empty text *)
Trimmed(x) == IF x = NaN THEN << >> ELSE strip(lower_text(x))

KeyTuple(row) ==
    <<Trimmed(row.facility), Trimmed(row.First_Name), Trimmed(row.Last_Name),
      Trimmed(row.emails)>>

(* The rows of a sequence at the positions of S, in their order *)
RECURSIVE RowsAt(_, _, _)
RowsAt(rows, S, k) ==
    IF k > Len(rows) THEN << >>
    ELSE IF k \in S THEN <<rows[k]>> \o RowsAt(rows, S, k + 1)
    ELSE RowsAt(rows, S, k + 1)

FirstWithKey(rows, k) ==
    CHOOSE j \in 1..k :
        /\ KeyTuple(rows[j]) = KeyTuple(rows[k])
        /\ \A h \in 1..(j - 1) : KeyTuple(rows[h]) # KeyTuple(rows[k])

Deduplicated(before, after) ==
    /\ \A a, b \in 1..Len(after) : a # b => KeyTuple(after[a]) # KeyTuple(after[b])
    /\ \A k \in 1..Len(before) :
           \E a \in 1..Len(after) : after[a] = before[FirstWithKey(before, k)]
    /\ \E S \in SUBSET (1..Len(before)) : after = RowsAt(before, S, 1)

(* C14: after the deduplication no two surviving rows have the same        *)
(* (facility, first name, last name, email) after lowercasing and          *)
(* trimming, every such tuple of the input is represented by its first     *)
(* occurrence, and the survivors keep their relative order.                *)
C14_DedupKeepsFirstInOrder ==
    [][pc = "dedup" => Deduplicated(contact_df, contact_df')]_vars

(* Three rows went in and two came out *)
C14_Witness ==
    /\ pc = "save_contacts"
    /\ idx = 3
    /\ Len(contact_df) = 2
    /\ KeyTuple(contact_df[1]) # KeyTuple(contact_df[2])


(* The arguments main hands to check_hubspot_contact_exists for a row *)
EmailKeyOf(row) == IF row.emails = NaN THEN << >> ELSE strip(lower_text(strip(row.emails)))
NameKeyOf(row) ==
    strip(lower_text(row.First_Name)) \o <<"|">> \o strip(lower_text(row.Last_Name))
Named(row) == row.First_Name # << >> /\ row.Last_Name # << >>
ByEmail(row) == EmailKeyOf(row) # << >> /\ EmailKeyOf(row) \in DOMAIN email_lookup
ByName(row) == Named(row) /\ NameKeyOf(row) \in DOMAIN name_lookup

(* C16: the email has precedence over the name: a row whose email is a key *)
(* of the email lookup gets that lookup's record, whatever its name        *)
(* matches; the name lookup decides only when the email is empty or not    *)
(* found and both names are non-empty; otherwise no record is found.       *)
C16_EmailBeforeName ==
    pc = "process" =>
        \A k \in 1..idx :
            LET row == contact_df[k]
                found == row.HubSpot_Contact_Record_ID
            IN /\ ByEmail(row) =>
                      found = email_lookup[EmailKeyOf(row)].contact_record_id
               /\ (~ByEmail(row) /\ ByName(row)) =>
                      found = name_lookup[NameKeyOf(row)].contact_record_id
               /\ (~ByEmail(row) /\ ~ByName(row)) => found = << >>

(* A processed row whose email and whose name are keys of different records *)
C16_Witness ==
    /\ pc = "process"
    /\ \E k \in 1..idx :
           /\ ByEmail(contact_df[k])
           /\ ByName(contact_df[k])
           /\ email_lookup[EmailKeyOf(contact_df[k])].contact_record_id
                  # name_lookup[NameKeyOf(contact_df[k])].contact_record_id
           /\ contact_df[k].HubSpot_Contact_Record_ID = "c1"

(* A processed row found by its name alone *)
C16_WitnessByName ==
    /\ pc = "process"
    /\ \E k \in 1..idx :
           /\ ~ByEmail(contact_df[k])
           /\ ByName(contact_df[k])
           /\ contact_df[k].HubSpot_Contact_Record_ID = "c2"

---------------------------------------------------------------------------
(* Further properties of match_addresses.main *)

BothPhasesRan(k, sys) ==
    IF sys = "hs" THEN phases[k].hs_filtered_ran /\ phases[k].hs_fallback_ran
    ELSE phases[k].cu_filtered_ran /\ phases[k].cu_fallback_ran

FilteredScore(k, sys) ==
    IF sys = "hs" THEN phases[k].hs_filtered[2] ELSE phases[k].cu_filtered[2]

FallbackScore(k, sys) ==
    IF sys = "hs" THEN phases[k].hs_fallback[2] ELSE phases[k].cu_fallback[2]

FinalScore(k, sys) ==
    IF sys = "hs" THEN phases[k].hs_final[2] ELSE phases[k].cu_final[2]

(* C18: whenever both phases run for a target, the best score of the       *)
(* fallback scan is at least the best score of the state-filtered phase,   *)
(* so the score carried into the row is not lower than the rejected one.   *)
C18_FallbackNotLower ==
    \A sys \in {"hs", "cu"} :
        /\ \A k \in 1..Len(phases) :
               BothPhasesRan(k, sys) => FallbackScore(k, sys) >= FilteredScore(k, sys)
        /\ \A k \in 1..Len(results) :
               BothPhasesRan(k, sys) => FinalScore(k, sys) >= FilteredScore(k, sys)

(* A row whose fallback found a higher score outside the target's bucket *)
C18_Witness ==
    \E k \in 1..Len(results) :
        /\ BothPhasesRan(k, "hs")
        /\ FilteredScore(k, "hs") > 0
        /\ FinalScore(k, "hs") > FilteredScore(k, "hs")

(* A row whose fallback found the rejected candidate's score again *)
C18_WitnessSameScore ==
    \E k \in 1..Len(results) :
        /\ BothPhasesRan(k, "hs")
        /\ FilteredScore(k, "hs") > 0
        /\ FinalScore(k, "hs") = FilteredScore(k, "hs")


(* Lines 533-535: the rows whose reported score reaches the threshold *)
MatchTotal(field) ==
    Cardinality({k \in 1..Len(results) : results[k][field] >= 5000})

RunEnded == pc \in {"save", "summary", "done"}

(* C17: at the end of the run, for each system the state-filtered-accept    *)
(* counter plus the fallback-accept counter equals the number of rows whose *)
(* reported, rounded score is >= 0.5, the total the summary prints beside   *)
(* them.                                                                    *)
C17_CountersAddUpToTotal ==
    RunEnded =>
        /\ stats.hs_state_match + stats.hs_fallback = MatchTotal("hubspot_match_score")
        /\ stats.cu_state_match + stats.cu_fallback = MatchTotal("clickup_match_score")
        /\ stats.corp_state_match + stats.corp_fallback
               = MatchTotal("corporations_match_score")

(* What does hold: the counters add up to the rows whose unrounded final *)
(* score reaches the threshold, and no target is counted twice           *)
C17_CountersAddUpToAccepted ==
    RunEnded =>
        /\ stats.hs_state_match + stats.hs_fallback =
               Cardinality({k \in 1..Len(results) : phases[k].hs_final[2] >= 5000})
        /\ stats.cu_state_match + stats.cu_fallback =
               Cardinality({k \in 1..Len(results) : phases[k].cu_final[2] >= 5000})
        /\ stats.corp_state_match + stats.corp_fallback =
               Cardinality({k \in 1..Len(results) : phases[k].corp_final[2] >= 5000})
        /\ stats.hs_state_match + stats.hs_fallback <= Len(results)
        /\ stats.cu_state_match + stats.cu_fallback <= Len(results)


(* What the two scans of lines 417-432 give for a target and an index, as *)
(* a function of the target, the index and the library's answers          *)
TwoPhaseBest(addr, facility, index) ==
    LET state == extract_state_from_address(addr)
        filtered == IF state # NoneStr /\ state \in DOMAIN index.val
                    THEN find_best_match_combined(addr, facility, index.val[state])
                    ELSE <<None, 0>>
    IN IF filtered[1] = None \/ filtered[2] < 5000
       THEN find_best_match_combined(addr, facility,
                Flatten([b \in 1..Len(index.keys) |-> index.val[index.keys[b]]]))
       ELSE filtered

CorporationsBest(facility) ==
    LET best == ScanCorporations(facility, corporations_candidates, None, 0)
    IN IF best[1] # None /\ best[2] >= 5000 THEN best ELSE <<None, 0>>

FieldOf(best, field) ==
    IF best[1] # None /\ best[2] >= 5000 THEN best[1][field] ELSE << >>

ScoreOf(best) == IF best[1] # None THEN ((best[2] + 5) \div 10) * 10 ELSE 0

(* Result row k is the row the inputs of target k determine *)
RowDetermined(k) ==
    LET addr == unique_addresses[k]
        facility == facility_names[k]
        hs == TwoPhaseBest(addr, facility, hubspot_by_state)
        cu == TwoPhaseBest(addr, facility, clickup_by_state)
        corp == CorporationsBest(facility)
        row == results[k]
    IN /\ row.unique_address = addr
       /\ row.facility_name = facility
       /\ row.hubspot_record_id = FieldOf(hs, "hubspot_record_id")
       /\ row.hubspot_company_name = FieldOf(hs, "hubspot_company_name")
       /\ row.hubspot_match_score = ScoreOf(hs)
       /\ row.clickup_task_name = FieldOf(cu, "clickup_task_name")
       /\ row.clickup_task_url = FieldOf(cu, "clickup_url")
       /\ row.clickup_match_score = ScoreOf(cu)
       /\ row.corporations_task_name = FieldOf(corp, "corporations_task_name")
       /\ row.corporations_match_score = ScoreOf(corp)

(* C15: one result row is appended per target, the i-th row carries the    *)
(* i-th target's address and facility name, and every row is a function of *)
(* the ordered targets, the ordered candidate rows and the library's       *)
(* answers, so two runs on the same inputs give the same rows.             *)
C15_OneRowPerTargetInOrder ==
    /\ Len(results) = IF pc \in {"hs_filtered", "hs_fallback", "cu_filtered",
                                 "cu_fallback", "corporations", "append_result"}
                      THEN i - 1 ELSE i
    /\ RunEnded => Len(results) = Len(unique_addresses)
    /\ \A k \in 1..Len(results) : RowDetermined(k)

(* A finished run over two different targets *)
C15_Witness ==
    /\ pc = "done"
    /\ Len(results) = 2
    /\ results[1].unique_address # results[2].unique_address
    /\ results[1].hubspot_match_score > 0

=============================================================================
